---- MODULE Spec2Model ----
(***************************************************************************)
(* Model of our_weather_importer.py: the import_weather task, the HTTP     *)
(* helper get_request, and the module-level SMART_DATA_MODEL template the  *)
(* task writes into.                                                       *)
(*                                                                         *)
(* Python values are tagged records: None, str (a sequence of characters,  *)
(* for the strings the code splits or formats), text (an opaque string),   *)
(* num (an integer-valued number), float (a reduced fraction, the result   *)
(* of a true division) and dict (the GeoJSON point).                       *)
(***************************************************************************)
EXTENDS Integers, Sequences, FiniteSets, TLC

VARIABLES heap, run, pc, requests, inflight, response, final_weather_url,
          weather_content, results, i, converted, exc

vars == <<heap, run, pc, requests, inflight, response, final_weather_url,
          weather_content, results, i, converted, exc>>

\* ------------------------------------------------------------------ bounds
MaxRecords == 2
MaxRuns == 2

\* ----------------------------------------------------------- Python values
None == [t |-> "None"]
Str(s) == [t |-> "str", v |-> s]
Text(s) == [t |-> "text", v |-> s]
Num(n) == [t |-> "num", v |-> n]

\* bool(x) for the values the code tests with `if x:`
Truthy_NotNone(x) == x.t # "None"
Truthy(x) ==
    CASE x.t = "None" -> FALSE
      [] x.t = "str" -> x.v # <<>>
      [] x.t = "text" -> x.v # ""
      [] x.t = "num" -> x.v # 0
      [] OTHER -> TRUE

\* str(x), as str.format renders an argument
PyStr(x) ==
    CASE x.t = "None" -> <<"N", "o", "n", "e">>
      [] x.t = "str" -> x.v
      [] OTHER -> <<"?">>

RECURSIVE GCD(_, _)
GCD(a, b) == IF b = 0 THEN a ELSE GCD(b, a % b)

Abs(n) == IF n < 0 THEN -n ELSE n

\* x / 100 on a number: Python's true division, kept as a reduced fraction
TrueDiv(x, d) ==
    LET g == GCD(Abs(x.v), d)
    IN [t |-> "float", num |-> x.v \div g, den |-> d \div g]

\* ------------------------------------------------------ module constants
WEATHER_DATA_PROVIDER == Text("AEMET")
WEATHER_URL == Text("https://opendata.aemet.es/opendata/api/observacion/convencional/todas")
WEATHER_API_KEY == Text("TO_BE_DEFINED")
LOCAL_HEADERS == [Content_Type |-> Text("application/json"), api_key |-> WEATHER_API_KEY]
CITY_NAME == <<"T", "O", "_", "B", "E", "_", "D", "E", "F", "I", "N", "E", "D">>

DataKeys == {"name", "location", "address", "areaServed", "temperature",
             "temperatureMinimum", "temperatureMaximum", "atmosphericPressure",
             "relativeHumidity", "windSpeed", "windDirection", "snowHeight",
             "atmosphericPressureSeaLevel", "rainTotalSum10", "dateObserved",
             "dataProvider", "source"}

\* SMART_DATA_MODEL["data"] as the module defines it
TemplateData ==
    [k \in DataKeys |->
        CASE k \in {"name", "address", "areaServed"} -> Str(<<>>)
          [] k \in {"location", "relativeHumidity", "dateObserved"} -> None
          [] k = "dataProvider" -> WEATHER_DATA_PROVIDER
          [] k = "source" -> WEATHER_URL
          [] OTHER -> Num(0)]

\* The outer dict: its "data" entry is a reference to the one nested dict.
DataAddr == "SMART_DATA_MODEL.data"
SMART_DATA_MODEL == [model_name |-> Text("weather.WeatherObserved"), data |-> DataAddr]

\* dict.copy(): a new outer dict with the same entries, so the same reference
DictCopy(d) == d

TranslationKeys == {"areaServed", "temperature", "temperatureMinimum",
                    "temperatureMaximum", "atmosphericPressure", "windSpeed",
                    "windDirection", "snowHeight", "atmosphericPressureSeaLevel",
                    "rainTotalSum10"}

aemet_translation ==
    [k \in TranslationKeys |->
        CASE k = "areaServed" -> "ubi"
          [] k = "temperature" -> "ta"
          [] k = "temperatureMinimum" -> "tamin"
          [] k = "temperatureMaximum" -> "tamax"
          [] k = "atmosphericPressure" -> "pres"
          [] k = "windSpeed" -> "vmax"
          [] k = "windDirection" -> "dv"
          [] k = "snowHeight" -> "nieve"
          [] k = "atmosphericPressureSeaLevel" -> "pres_nmar"
          [] k = "rainTotalSum10" -> "prec"]

RawKeys == {"idema", "lon", "lat", "fint", "hr", "ubi", "ta", "tamin", "tamax",
            "pres", "vmax", "dv", "nieve", "pres_nmar", "prec"}

\* result.get(key): None when the key is absent
Get(result, key) == IF key \in DOMAIN result THEN result[key] ELSE None

\* ------------------------------------------------------- re.split("-|/", s)
IsSeparator(c) == c \in {"-", "/"}

RECURSIVE SplitFrom(_, _, _)
\* segments of s from position p on, cur being the segment read so far
SplitFrom(s, p, cur) ==
    IF p > Len(s) THEN <<cur>>
    ELSE IF IsSeparator(s[p]) THEN <<cur>> \o SplitFrom(s, p + 1, <<>>)
    ELSE SplitFrom(s, p + 1, Append(cur, s[p]))

re_split(s) == SplitFrom(s, 1, <<>>)

\* ----------------------------------------------------- "...".format(args)
RECURSIVE FormatFrom(_, _, _)
\* the template from position p on, each "{}" replaced by the next argument
FormatFrom(tmpl, p, args) ==
    IF p > Len(tmpl) THEN <<>>
    ELSE IF tmpl[p] = "{" /\ p < Len(tmpl) /\ tmpl[p + 1] = "}"
         THEN PyStr(Head(args)) \o FormatFrom(tmpl, p + 2, Tail(args))
         ELSE <<tmpl[p]>> \o FormatFrom(tmpl, p + 1, args)

str_format(tmpl, args) == FormatFrom(tmpl, 1, args)

NameTemplate == <<"{", "}", "-", "W", "O", "-", "{", "}">>

\* ------------------------------------- datetime.strptime / strftime
Digits == <<"0", "1", "2", "3", "4", "5", "6", "7", "8", "9">>
IsDigit(c) == \E d \in 1..10 : Digits[d] = c
DigitVal(c) == (CHOOSE d \in 1..10 : Digits[d] = c) - 1

Failed == [ok |-> FALSE]

\* a field of one or two digits at p (the regex alternatives of %m %d %H %M %S
\* take two digits when the value is in range, else one)
ReadField(s, p, lo, hi) ==
    IF p > Len(s) \/ ~IsDigit(s[p]) THEN Failed
    ELSE LET one == DigitVal(s[p])
             two == IF p < Len(s) /\ IsDigit(s[p + 1])
                    THEN 10 * one + DigitVal(s[p + 1]) ELSE -1
         IN IF two >= lo /\ two <= hi THEN [ok |-> TRUE, val |-> two, next |-> p + 2]
            ELSE IF one >= lo /\ one <= hi /\ one > 0
                 THEN [ok |-> TRUE, val |-> one, next |-> p + 1]
            ELSE IF one = 0 /\ lo = 0 /\ two = -1
                 THEN [ok |-> TRUE, val |-> 0, next |-> p + 1]
            ELSE Failed

\* %Y: exactly four digits
ReadYear(s, p) ==
    IF p + 3 <= Len(s) /\ \A k \in p..(p + 3) : IsDigit(s[k])
    THEN [ok |-> TRUE, next |-> p + 4,
          val |-> 1000 * DigitVal(s[p]) + 100 * DigitVal(s[p + 1])
                  + 10 * DigitVal(s[p + 2]) + DigitVal(s[p + 3])]
    ELSE Failed

\* a literal character of the format
ReadLit(s, r, c) == r.ok /\ r.next <= Len(s) /\ s[r.next] = c

IsLeap(y) == (y % 4 = 0 /\ y % 100 # 0) \/ y % 400 = 0
DaysIn(y, m) ==
    IF m = 2 THEN (IF IsLeap(y) THEN 29 ELSE 28)
    ELSE IF m \in {4, 6, 9, 11} THEN 30 ELSE 31

\* datetime.strptime(s, DATE_TIME_FORMAT): Failed stands for ValueError
strptime(s) ==
    LET y == ReadYear(s, 1)
        mo == IF ReadLit(s, y, "-") THEN ReadField(s, y.next + 1, 1, 12) ELSE Failed
        d == IF ReadLit(s, mo, "-") THEN ReadField(s, mo.next + 1, 1, 31) ELSE Failed
        h == IF ReadLit(s, d, "T") THEN ReadField(s, d.next + 1, 0, 23) ELSE Failed
        mi == IF ReadLit(s, h, ":") THEN ReadField(s, h.next + 1, 0, 59) ELSE Failed
        se == IF ReadLit(s, mi, ":") THEN ReadField(s, mi.next + 1, 0, 61) ELSE Failed
    IN IF se.ok /\ se.next = Len(s) + 1 /\ y.val >= 1 /\ d.val <= DaysIn(y.val, mo.val)
          /\ se.val <= 59
       THEN [ok |-> TRUE, year |-> y.val, month |-> mo.val, day |-> d.val,
             hour |-> h.val, minute |-> mi.val, second |-> se.val]
       ELSE Failed

Pad2(n) == <<Digits[(n \div 10) + 1], Digits[(n % 10) + 1]>>
Pad4(n) == Pad2(n \div 100) \o Pad2(n % 100)

\* dt.strftime(DATE_TIME_ISO_FORMAT)
strftime(dt) ==
    Pad4(dt.year) \o <<"-">> \o Pad2(dt.month) \o <<"-">> \o Pad2(dt.day) \o <<"T">>
    \o Pad2(dt.hour) \o <<":">> \o Pad2(dt.minute) \o <<":">> \o Pad2(dt.second)
    \o <<"Z">>

\* ------------------------------------------------------------- json.loads
PointerUrl1 == Text("https://opendata.aemet.es/opendata/sh/1a2b3c")
PointerUrl2 == Text("https://opendata.aemet.es/opendata/sh/4d5e6f")

\* A body is either a literal text or the serialisation of a JSON value.
Json(value) == [t |-> "json", v |-> value]

DecodeFailed == [ok |-> FALSE]
Decoded(value) == [ok |-> TRUE, value |-> value]

\* json.loads(text): DecodeFailed stands for json.JSONDecodeError
json_loads(text) ==
    CASE text.t = "json" -> Decoded(text.v)
      [] text = Text("{\"descripcion\": \"exito\", \"estado\": 200, \"datos\": \"1a2b3c\"}")
            -> Decoded([descripcion |-> Text("exito"), estado |-> Num(200), datos |-> PointerUrl1])
      [] text = Text("{\"descripcion\": \"exito\", \"estado\": 200, \"datos\": \"4d5e6f\"}")
            -> Decoded([descripcion |-> Text("exito"), estado |-> Num(200), datos |-> PointerUrl2])
      [] text = Text("{\"datos\": \"\"}") -> Decoded([datos |-> Text("")])
      [] text = Text("{\"descripcion\": \"No hay datos\", \"estado\": 404}")
            -> Decoded([descripcion |-> Text("No hay datos"), estado |-> Num(404)])
      [] OTHER -> DecodeFailed

\* -------------------------------------------------------------- the inputs
Statuses == {200, 204, 404, 500}

PointerTexts ==
    {Text("{\"descripcion\": \"exito\", \"estado\": 200, \"datos\": \"1a2b3c\"}"),
     Text("{\"descripcion\": \"exito\", \"estado\": 200, \"datos\": \"4d5e6f\"}"),
     Text("{\"datos\": \"\"}"),
     Text("{\"descripcion\": \"No hay datos\", \"estado\": 404}"),
     Text("<html>Bad Gateway</html>")}

UbiSlash == CITY_NAME \o <<"/", "A">>
UbiDash == CITY_NAME \o <<"-", "A">>
UbiLower == <<"t">> \o Tail(CITY_NAME) \o <<"/", "A">>
UbiLonger == CITY_NAME \o <<"X", "/", "A">>
UbiOther == <<"M", "/", "A">>

FintGood == <<"2", "0", "2", "3", "-", "0", "6", "-", "2", "9", "T",
              "2", "0", ":", "0", "0", ":", "0", "0">>
FintShort == <<"2", "0", "2", "3", "-", "6", "-", "2", "9", "T",
               "7", ":", "0", "5", ":", "0", "0">>
FintBad == <<"2", "0", "2", "3", "-", "0", "6", "-", "2", "9", " ",
             "2", "0", ":", "0", "0", ":", "0", "0">>

IdA == Str(<<"5", "5", "3", "0", "E">>)
IdB == Str(<<"5", "5", "1", "4">>)

\* a raw record: the keys whose value is None are absent from the object
Raw(ubi, idema, lon, lat, fint, hr, ta, nieve) ==
    LET full == [k \in RawKeys |->
                    CASE k = "ubi" -> ubi
                      [] k = "idema" -> idema
                      [] k = "lon" -> lon
                      [] k = "lat" -> lat
                      [] k = "fint" -> fint
                      [] k = "hr" -> hr
                      [] k = "ta" -> ta
                      [] k = "nieve" -> nieve
                      [] k = "tamin" -> IF ta = None THEN None ELSE Num(ta.v - 1)
                      [] k = "tamax" -> IF ta = None THEN None ELSE Num(ta.v + 2)
                      [] k = "pres" -> Num(948)
                      [] k = "pres_nmar" -> Num(1010)
                      [] k = "vmax" -> Num(7)
                      [] k = "dv" -> Num(270)
                      [] k = "prec" -> Num(0)]
    IN [k \in {q \in RawKeys : full[q] # None} |-> full[k]]

Records ==
    {Raw(Str(UbiSlash), IdA, Num(-3), Num(37), Str(FintGood), Num(50), Num(31), None),
     Raw(Str(UbiDash), IdA, Num(-3), Num(37), Str(FintShort), Num(0), Num(12), Num(3)),
     Raw(Str(UbiDash), IdB, Num(-4), Num(36), Str(FintGood), None, None, None),
     Raw(Str(CITY_NAME), None, Num(-3), Num(37), Str(FintGood), Num(31), Num(12), None),
     Raw(Str(UbiSlash), IdB, None, Num(37), Str(FintGood), Num(50), Num(31), None),
     Raw(Str(UbiSlash), IdB, Num(-3), Num(37), Str(FintBad), Num(50), Num(31), None),
     Raw(Str(UbiSlash), IdB, Num(-3), Num(37), None, Num(50), Num(31), None),
     Raw(None, IdB, Num(-3), Num(37), Str(FintGood), Num(50), Num(31), None),
     Raw(Str(UbiOther), IdB, Num(-3), Num(40), Str(FintBad), Num(50), Num(31), None),
     Raw(Str(UbiLower), IdA, Num(-3), Num(37), Str(FintGood), Num(50), Num(31), None),
     Raw(Str(UbiLonger), IdA, Num(-3), Num(37), Str(FintGood), Num(50), Num(31), None)}

RECURSIVE SeqsUpTo(_, _)
\* the sequences over S of length at most n
SeqsUpTo(S, n) ==
    IF n = 0 THEN {<<>>}
    ELSE LET shorter == SeqsUpTo(S, n - 1)
         IN shorter \cup {Append(q, x) : q \in shorter, x \in S}

DataTexts ==
    {Json(arr) : arr \in SeqsUpTo(Records, MaxRecords)}
    \cup {Text("<html>Bad Gateway</html>")}

ErrorTexts == {Text("Internal Server Error"), Text("")}

\* ------------------------------------------------------------- get_request
Response(status_code, text) == [t |-> "Response", status_code |-> status_code, text |-> text]

IsFailure_ClientOrServerError(status_code) == status_code >= 400
\* get_request's test of the status code
IsFailure(status_code) == status_code # 200

\* what raise_request_exception raises
RequestException(url, status_code, message) ==
    [type |-> "Exception", at |-> "get_request",
     format |-> "Failed to retrieve data from URL: {}, status code: {}, messsage: {}",
     args |-> <<url, Num(status_code), message>>]

PyError(type, at) == [type |-> type, at |-> at, format |-> "", args |-> <<>>]

\* the GET that import_weather issues: requests.get(url, verify, headers, auth)
Request(url, headers) == [url |-> url, verify |-> None, headers |-> headers, auth |-> None]

PointerRequest == Request(WEATHER_URL, LOCAL_HEADERS)
DataRequest_PointerUrl(url) == Request(WEATHER_URL, None)
DataRequest(url) == Request(url, None)

\* ---------------------------------------------------------- the mapping
\* the first segment of the split location against CITY_NAME
Matches(ubi) == re_split(ubi.v)[1] = CITY_NAME

EntityName_FromUbi(result) == str_format(NameTemplate, <<Get(result, "ubi"), Get(result, "idema")>>)
EntityName(result) == str_format(NameTemplate, <<Str(CITY_NAME), Get(result, "idema")>>)

Location(result) ==
    [t |-> "dict", type |-> Text("Point"),
     coordinates |-> <<Get(result, "lon"), Get(result, "lat")>>]

\* lines 160-163
SetNameLocation(d, result) ==
    [d EXCEPT !["name"] = Str(EntityName(result)), !["location"] = Location(result)]

\* lines 164-166
SetDate(d, parsed) == [d EXCEPT !["dateObserved"] = Str(strftime(parsed))]

\* lines 167-168
SetHumidity(d, result) ==
    IF Truthy(Get(result, "hr"))
    THEN [d EXCEPT !["relativeHumidity"] = TrueDiv(Get(result, "hr"), 100)]
    ELSE d

\* lines 170-171
Translate(d, result) ==
    [k \in DataKeys |->
        IF k \in TranslationKeys THEN Get(result, aemet_translation[k]) ELSE d[k]]

\* ------------------------------------------------------------------- state
Init ==
    /\ heap = [a \in {DataAddr} |-> TemplateData]
    /\ run = 0
    /\ pc = "idle"
    /\ requests = <<>>
    /\ inflight = {}
    /\ response = None
    /\ final_weather_url = None
    /\ weather_content = None
    /\ results = <<>>
    /\ i = 0
    /\ converted = <<>>
    /\ exc = None

\* The task starts: import_weather is called and sends the pointer request.
StartRun ==
    /\ pc \in {"idle", "returned", "raised"}
    /\ run < MaxRuns
    /\ run' = run + 1
    /\ pc' = "pointer_wait"
    /\ requests' = <<PointerRequest>>
    /\ inflight' = {1}
    /\ response' = None
    /\ final_weather_url' = None
    /\ weather_content' = None
    /\ results' = <<>>
    /\ i' = 0
    /\ converted' = <<>>
    /\ exc' = None
    /\ UNCHANGED heap

\* requests.get raises instead of answering (no connection, timeout of the peer)
ConnectionFailure ==
    /\ pc \in {"pointer_wait", "data_wait"}
    /\ inflight' = {}
    /\ exc' = PyError("ConnectionError", "requests.get")
    /\ pc' = "raised"
    /\ UNCHANGED <<heap, run, requests, response, final_weather_url, weather_content,
                   results, i, converted>>

\* The pointer endpoint answers: get_request's check, then lines 124-126.
PointerResponse(status_code, text) ==
    /\ pc = "pointer_wait"
    /\ response' = Response(status_code, text)
    /\ LET decoded == json_loads(text)
           datos == Get(decoded.value, "datos")
       IN IF IsFailure(status_code)
          THEN /\ exc' = RequestException(WEATHER_URL, status_code, text)
               /\ pc' = "raised"
               /\ inflight' = {}
               /\ UNCHANGED <<requests, final_weather_url>>
          ELSE IF ~decoded.ok
          THEN /\ exc' = PyError("JSONDecodeError", "json.loads")
               /\ pc' = "raised"
               /\ inflight' = {}
               /\ UNCHANGED <<requests, final_weather_url>>
          ELSE IF Truthy(datos)
          THEN /\ final_weather_url' = datos
               /\ requests' = Append(requests, DataRequest(datos))
               /\ inflight' = {Len(requests) + 1}
               /\ pc' = "data_wait"
               /\ UNCHANGED exc
          ELSE /\ final_weather_url' = datos
               /\ inflight' = {}
               /\ pc' = "returned"
               /\ UNCHANGED <<requests, exc>>
    /\ UNCHANGED <<heap, run, weather_content, results, i, converted>>

\* The data endpoint answers: get_request's check, then line 127.
DataResponse(status_code, text) ==
    /\ pc = "data_wait"
    /\ weather_content' = Response(status_code, text)
    /\ inflight' = {}
    /\ LET decoded == json_loads(text)
       IN IF IsFailure(status_code)
          THEN /\ exc' = RequestException(final_weather_url, status_code, text)
               /\ pc' = "raised"
               /\ UNCHANGED results
          ELSE IF ~decoded.ok
          THEN /\ exc' = PyError("JSONDecodeError", "json.loads")
               /\ pc' = "raised"
               /\ UNCHANGED results
          ELSE /\ results' = decoded.value
               /\ pc' = "loop"
               /\ UNCHANGED exc
    /\ UNCHANGED <<heap, run, requests, response, final_weather_url, i, converted>>

\* One iteration of the loop of lines 149-171 on results[i + 1].
ProcessRecord ==
    /\ pc = "loop"
    /\ i < Len(results)
    /\ LET result == results[i + 1]
           ubi == Get(result, "ubi")
           fint == Get(result, "fint")
           converted_item == DictCopy(SMART_DATA_MODEL)
           d0 == heap[converted_item.data]
           d1 == SetNameLocation(d0, result)
           parsed == strptime(fint.v)
           d3 == Translate(SetHumidity(SetDate(d1, parsed), result), result)
       IN IF ubi.t = "None"
          THEN /\ exc' = PyError("TypeError", "re.split")
               /\ pc' = "raised"
               /\ UNCHANGED <<heap, i, converted>>
          ELSE IF ~Matches(ubi)
          THEN /\ i' = i + 1
               /\ UNCHANGED <<heap, pc, converted, exc>>
          ELSE IF fint.t = "None"
          THEN /\ heap' = [heap EXCEPT ![converted_item.data] = d1]
               /\ exc' = PyError("TypeError", "strptime")
               /\ pc' = "raised"
               /\ UNCHANGED <<i, converted>>
          ELSE IF ~parsed.ok
          THEN /\ heap' = [heap EXCEPT ![converted_item.data] = d1]
               /\ exc' = PyError("ValueError", "strptime")
               /\ pc' = "raised"
               /\ UNCHANGED <<i, converted>>
          ELSE /\ heap' = [heap EXCEPT ![converted_item.data] = d3]
               /\ converted' = Append(converted, converted_item)
               /\ i' = i + 1
               /\ UNCHANGED <<pc, exc>>
    /\ UNCHANGED <<run, requests, inflight, response, final_weather_url,
                   weather_content, results>>

\* The loop is exhausted and import_weather returns.
FinishRun ==
    /\ pc = "loop"
    /\ i = Len(results)
    /\ pc' = "returned"
    /\ UNCHANGED <<heap, run, requests, inflight, response, final_weather_url,
                   weather_content, results, i, converted, exc>>

Next ==
    \/ StartRun
    \/ ConnectionFailure
    \/ \E status_code \in Statuses, text \in PointerTexts : PointerResponse(status_code, text)
    \/ \E text \in DataTexts : DataResponse(200, text)
    \/ \E status_code \in Statuses \ {200}, text \in ErrorTexts : DataResponse(status_code, text)
    \/ ProcessRecord
    \/ FinishRun

Spec == Init /\ [][Next]_vars

\* ============================================================== properties
\* the entity a converted item stands for: its "data" entry, read through
\* the reference
Deref(item) == heap[item.data]

\* the text before the first '-' or '/' of s (all of s when there is none)
FirstSegment(s) ==
    LET seps == {p \in 1..Len(s) : s[p] \in {"-", "/"}}
    IN IF seps = {} THEN s
       ELSE SubSeq(s, 1, (CHOOSE p \in seps : \A q \in seps : p <= q) - 1)

\* the record belongs to the target location
IsMatch(r) == "ubi" \in DOMAIN r /\ FirstSegment(r["ubi"].v) = CITY_NAME

NameOf(r) ==
    Str(CITY_NAME \o <<"-", "W", "O", "-">>
        \o (IF "idema" \in DOMAIN r THEN r["idema"].v ELSE <<"N", "o", "n", "e">>))

\* record results[i] matched and its iteration ran to the end
JustMapped == pc \in {"loop", "returned"} /\ i > 0 /\ IsMatch(results[i])

LastEntity == Deref(converted[Len(converted)])

IsMappingOf(e, r) ==
    /\ e["name"] = NameOf(r)
    /\ \A k \in TranslationKeys : e[k] = Get(r, aemet_translation[k])

\* C1: a successful run yields exactly one entity per matching record, in
\* record order, and the k-th entity still is the mapping of the k-th
\* matching record when the run returns.
C1_OneEntityPerMatchingRecord ==
    (pc = "returned" /\ weather_content # None) =>
        LET m == SelectSeq(results, IsMatch)
        IN /\ Len(converted) = Len(m)
           /\ \A k \in 1..Len(m) : IsMappingOf(Deref(converted[k]), m[k])

\* C2: a 200 pointer response whose "datos" is missing or empty ends the run
\* normally with no entity, no error and no request to the data endpoint.
C2_NoDataUrlEndsRunEmpty ==
    (/\ response # None
     /\ response.status_code = 200
     /\ json_loads(response.text).ok
     /\ LET body == json_loads(response.text).value
        IN "datos" \notin DOMAIN body \/ body["datos"] = Text(""))
    => /\ pc = "returned"
       /\ exc = None
       /\ converted = <<>>
       /\ Len(requests) = 1
       /\ inflight = {}
       /\ weather_content = None

C2_Witness ==
    /\ pc = "returned"
    /\ response # None
    /\ response.status_code = 200
    /\ response.text = Text("{\"datos\": \"\"}")
    /\ final_weather_url = Text("")

\* C3: a status code other than 200 from either endpoint fails the run with
\* an exception carrying the requested URL, the status code and the body
\* text; no entity is produced and no further request is sent in that run.
C3_Non200FailsRun ==
    /\ (response # None /\ response.status_code # 200) =>
          /\ pc = "raised"
          /\ exc.type = "Exception"
          /\ exc.args = <<WEATHER_URL, Num(response.status_code), response.text>>
          /\ converted = <<>>
          /\ Len(requests) = 1
          /\ inflight = {}
          /\ weather_content = None
    /\ (weather_content # None /\ weather_content.status_code # 200) =>
          /\ pc = "raised"
          /\ exc.type = "Exception"
          /\ exc.args = <<requests[2].url, Num(weather_content.status_code),
                          weather_content.text>>
          /\ converted = <<>>
          /\ Len(requests) = 2
          /\ inflight = {}

C3_Witness ==
    /\ pc = "raised"
    /\ weather_content # None
    /\ weather_content.status_code = 500
    /\ exc.args[2] = Num(500)
    /\ exc.args[1] = PointerUrl1

\* C4: a matching record whose fint does not parse is dropped alone: the run
\* does not fail on it, and a run that returns has produced the entities of
\* the matching records whose fint parses.
C4_BadTimestampDropsOnlyThatRecord ==
    LET Unparsable(r) == "fint" \notin DOMAIN r \/ ~strptime(r["fint"].v).ok
    IN /\ (i < Len(results) /\ IsMatch(results[i + 1]) /\ Unparsable(results[i + 1]))
            => pc # "raised"
       /\ (pc = "returned" /\ weather_content # None) =>
            Len(converted) =
                Len(SelectSeq(results, LAMBDA r : IsMatch(r) /\ ~Unparsable(r)))

\* C5: the entity of a matching record has relativeHumidity = hr / 100 when
\* hr is present and non-zero, and no relativeHumidity otherwise.
C5_RelativeHumidity ==
    JustMapped =>
        LET r == results[i]
            rh == LastEntity["relativeHumidity"]
        IN IF "hr" \in DOMAIN r /\ r["hr"].v # 0
           THEN rh.t = "float" /\ rh.num * 100 = r["hr"].v * rh.den
           ELSE rh = None

\* C6: a record matches exactly when its ubi is present and its first
\* segment is the target name; a record without ubi is skipped without an
\* error.
C6_LocationFilter ==
    /\ pc \in {"loop", "returned", "raised"} =>
          Len(converted) = Cardinality({j \in 1..i : IsMatch(results[j])})
    /\ ~(pc = "raised" /\ exc.at = "re.split")

\* C7: the entity of a matching record is named "<CITY_NAME>-WO-<idema>",
\* whatever separator its ubi uses and whichever run maps it.
C7_EntityName == JustMapped => LastEntity["name"] = NameOf(results[i])

C7_Witness ==
    /\ JustMapped
    /\ run = 2
    /\ results[i]["ubi"] = Str(UbiDash)
    /\ LastEntity["name"] = Str(CITY_NAME \o <<"-", "W", "O", "-", "5", "5", "3", "0", "E">>)

\* C8: the entity's location is the point [lon, lat] only when the record
\* has both coordinates, and is unset otherwise.
C8_LocationOnlyWithBothCoordinates ==
    JustMapped =>
        LET r == results[i]
            loc == LastEntity["location"]
        IN IF "lon" \in DOMAIN r /\ "lat" \in DOMAIN r
           THEN loc = [t |-> "dict", type |-> Text("Point"),
                       coordinates |-> <<r["lon"], r["lat"]>>]
           ELSE loc = None

\* C9: a run sends at most two requests, the pointer request first with its
\* two headers, the data request only after a 200 pointer response with a
\* non-empty "datos" and to exactly that URL; at most one request is in
\* flight and none follows the data response.
C9_HttpCallsOrdered ==
    /\ Len(requests) <= 2
    /\ Cardinality(inflight) <= 1
    /\ inflight \subseteq {Len(requests)}
    /\ pc # "idle" =>
          /\ requests[1].url = WEATHER_URL
          /\ requests[1].headers = [Content_Type |-> Text("application/json"),
                                    api_key |-> WEATHER_API_KEY]
    /\ Len(requests) = 2 =>
          /\ response # None
          /\ response.status_code = 200
          /\ json_loads(response.text).ok
          /\ LET body == json_loads(response.text).value
             IN /\ "datos" \in DOMAIN body
                /\ body["datos"] # Text("")
                /\ requests[2].url = body["datos"]
    /\ weather_content # None => (Len(requests) = 2 /\ inflight = {})

C9_Witness ==
    /\ pc = "returned"
    /\ Len(requests) = 2
    /\ requests[2].url = PointerUrl2
    /\ weather_content # None
    /\ i = 2

\* C10: no run modifies the module-level SMART_DATA_MODEL.
C10_TemplateUnchanged == heap[SMART_DATA_MODEL.data] = TemplateData

====
